---- MODULE Spec2Model ----
(***************************************************************************)
(* Game of Life on the GPU: the compute shader of draw.wgsl, the frame     *)
(* loop of main.go (main, State.Render, State.Resize) and the ping-pong    *)
(* pair of cell-state storage buffers.                                     *)
(***************************************************************************)
EXTENDS Integers, Sequences, FiniteSets, TLC

\* ---- program constants ----
GRID_SIZE == 4
WORKGROUP_SIZE == 16

\* ---- bounds of the model ----
MaxSteps == 2
MaxSeedAlive == 1
MaxPollEvents == 1
MaxShaderGrid == 4
MaxShaderAlive == 4
MaxShaderSteps == 2
MaxDestroyCalls == 2

\* ---- u32 arithmetic, a value being the pair <<high limb, low limb>> ----
Limb == 2^16

U32(n) == <<(n \div Limb) % Limb, n % Limb>>

U32Add(a, b) ==
    LET lo == a[2] + b[2]
        hi == a[1] + b[1] + (lo \div Limb)
    IN  <<hi % Limb, lo % Limb>>

U32Sub(a, b) ==
    LET lo == a[2] - b[2]
        borrow == IF lo < 0 THEN 1 ELSE 0
        hi == a[1] - b[1] - borrow
    IN  <<(hi + Limb) % Limb, (lo + Limb) % Limb>>

U32Mod(a, n) == (((a[1] % n) * (Limb % n)) + (a[2] % n)) % n

\* ---- draw.wgsl, compute stage ----
Cells(g) == 0 .. (g * g - 1)

cellIndex(cell, g) == U32Mod(cell[2], g) * g + U32Mod(cell[1], g)

cellActive(x, y, g, cellStateIn) == cellStateIn[cellIndex(<<x, y>>, g)]

activeNeighbors(cell, g, cellStateIn) ==
    LET x == cell[1]
        y == cell[2]
        one == U32(1)
    IN  cellActive(U32Add(x, one), U32Add(y, one), g, cellStateIn) +
        cellActive(U32Add(x, one), y, g, cellStateIn) +
        cellActive(U32Add(x, one), U32Sub(y, one), g, cellStateIn) +
        cellActive(x, U32Add(U32Add(U32Sub(y, one),
                        U32(cellActive(U32Sub(x, one), U32Sub(y, one), g, cellStateIn))),
                        U32(cellActive(U32Sub(x, one), y, g, cellStateIn))),
                   g, cellStateIn) +
        cellActive(U32Sub(x, one), U32Add(y, one), g, cellStateIn) +
        cellActive(x, U32Add(y, one), g, cellStateIn)

lifeRuleNoDeath(n, current) ==
    CASE n = 3 -> 1
      [] OTHER -> current

lifeRule(n, current) ==
    CASE n = 2 -> current
      [] n = 3 -> 1
      [] OTHER -> 0

\* one invocation of the compute entry point: the cell it writes and the value
main(cell, g, cellStateIn) ==
    LET i == cellIndex(cell, g)
    IN  [i |-> i, v |-> lifeRule(activeNeighbors(cell, g, cellStateIn), cellStateIn[i])]

InvocationsShortRow(g) ==
    {<<U32(x), U32(y)>> : x \in 0 .. (g - 2), y \in 0 .. (g - 1)}

\* global invocation ids of DispatchWorkgroups(g, g, 1) with @workgroup_size(16)
Invocations(g) ==
    {<<U32(x), U32(y)>> : x \in 0 .. (WORKGROUP_SIZE * g - 1), y \in 0 .. (g - 1)}

RECURSIVE Choices(_, _)
Choices(W, k) ==
    IF k = 0 THEN {<<>>}
    ELSE {Append(s, v) : s \in Choices(W, k - 1), v \in W[k - 1]}

\* the contents cellStateOut can have once every invocation has run: each cell
\* holds a value some invocation wrote to it, or its old value if none did
Dispatch(g, cellStateIn, cellStateOut) ==
    LET writes == {main(c, g, cellStateIn) : c \in Invocations(g)}
        W == [i \in Cells(g) |->
                LET vs == {w.v : w \in {u \in writes : u.i = i}}
                IN  IF vs = {} THEN {cellStateOut[i]} ELSE vs]
    IN  {[i \in Cells(g) |-> s[i + 1]] : s \in Choices(W, g * g)}


\* ---- main.go: program state ----
VARIABLES
    pc,                 \* position of main: start, initerr, loop, poll, render, handle,
                        \* exit, panic, and the ends exited, crashed, fatal
    shouldClose,        \* window.ShouldClose()
    polled,             \* callbacks run so far by the current glfw.PollEvents call
    event,              \* the callback the current glfw.PollEvents call ran last
    grid,               \* State.grid, the uniform both shader stages read
    cellStates,         \* State.cellStates: the two seeded arrays kept on the CPU
    cellStateStorage,   \* contents of the two storage buffers, by index
    gridBindGroups,     \* State.gridBindGroups: the buffers at bindings 1 and 2
    steps,              \* State.steps
    config,             \* State.config: Width and Height, as u32
    held,               \* the pointer fields of State that are not nil
    swapChain,          \* State.swapChain: handle of the current swap chain, or nil
    created,            \* number of swap chains created so far
    acquired,           \* handles the backend handed out so far, in order
    released,           \* handles released so far, in order, with the releasing function
    destroyCalls,       \* calls of State.Destroy so far
    initResult,         \* the call InitState failed at, "ok", or "none" before it ran
    renderErr,          \* the error the last Render call returned
    heap,               \* next fresh address handed out for an error value
    submitted,          \* command buffers submitted to the queue
    presented,          \* frames presented
    frame               \* what the last Render call encoded and executed

vars == <<pc, shouldClose, polled, event, grid, cellStates, cellStateStorage, gridBindGroups,
          steps, config, held, swapChain, created, acquired, released, destroyCalls,
          initResult, renderErr, heap, submitted, presented, frame>>

nil == 0

\* ---- error values: an address and a message, compared as Go compares pointers ----
NoError == [ptr |-> nil, msg |-> "nil"]

ErrorsNew(msg, addr) == [ptr |-> addr, msg |-> msg]

ErrorsIs(err, target) == err = target

TransientMessages == {"Surface timed out", "Surface is outdated", "Surface was lost"}
AcquireMessages == TransientMessages \cup {"Out of memory"}

\* ---- the callbacks glfw.PollEvents runs ----
NoEvent == [name |-> "none", width |-> 0, height |-> 0]

SizeEvent(width, height) == [name |-> "size", width |-> width, height |-> height]

CloseEvent == [name |-> "close", width |-> 0, height |-> 0]

\* a key event that made the callback call s.instance.GenerateReport()
ReportEvent == [name |-> "report", width |-> 0, height |-> 0]

\* any other key event
KeyEvent == [name |-> "key", width |-> 0, height |-> 0]

\* ---- handles of the backend ----
Handle(kind, id) == [kind |-> kind, id |-> id]

Released(h, by) == [kind |-> h.kind, id |-> h.id, by |-> by]

\* ---- State.Destroy ----
DestroyOrder ==
    <<"swapChain", "instance", "config", "queue", "device", "surface", "adapter",
      "vertexBuffer", "gridBuffer", "pipeline", "simulationPipeline">>

\* the nil-checked blocks of Destroy from the k-th on
RECURSIVE DestroyFields(_, _)
DestroyFields(s, k) ==
    IF k > Len(DestroyOrder) THEN s
    ELSE LET f == DestroyOrder[k]
             t == CASE f = "swapChain" ->
                         IF s.swapChain # nil
                         THEN [s EXCEPT !.released =
                                   Append(@, Released(Handle("swapChain", s.swapChain),
                                                      "Destroy")),
                                        !.swapChain = nil]
                         ELSE s
                    [] f = "config" -> [s EXCEPT !.held = @ \ {"config"}]
                    [] OTHER ->
                         IF f \in s.held
                         THEN [s EXCEPT !.released =
                                   Append(@, Released(Handle(f, 0), "Destroy")),
                                        !.held = @ \ {f}]
                         ELSE s
         IN  DestroyFields(t, k + 1)

\* the closing loop of Destroy: each bind group is released, the slice is kept
RECURSIVE DestroyBindGroups(_, _)
DestroyBindGroups(s, k) ==
    IF k > Len(s.gridBindGroups) THEN s
    ELSE DestroyBindGroups(
             [s EXCEPT !.released =
                  Append(@, Released(Handle("bindGroup", k - 1), "Destroy"))], k + 1)

Destroy(s) == DestroyBindGroups(DestroyFields(s, 1), 1)

\* ---- InitState ----
\* the outcomes of the random seeding with at most maxAlive cells alive
RECURSIVE AliveSets(_, _)
AliveSets(g, maxAlive) ==
    IF maxAlive = 0 THEN {{}}
    ELSE LET smaller == AliveSets(g, maxAlive - 1)
         IN  smaller \cup {A \cup {i} : A \in smaller, i \in Cells(g)}

Grids(g, maxAlive) ==
    {[i \in Cells(g) |-> IF i \in A THEN 1 ELSE 0] : A \in AliveSets(g, maxAlive)}

BindGroupsAliased ==
    <<[cellStateIn |-> 0, cellStateOut |-> 0],
      [cellStateIn |-> 1, cellStateOut |-> 1]>>

BindGroups ==
    <<[cellStateIn |-> 0, cellStateOut |-> 1],
      [cellStateIn |-> 1, cellStateOut |-> 0]>>

NoFrame ==
    [stage |-> "none", computeIn |-> nil, computeOut |-> nil, renderIn |-> nil,
     read |-> <<>>, shown |-> <<>>, target |-> nil, stepsAtRender |-> nil,
     acquired |-> <<>>, released |-> <<>>]

SeededFirstOnly(seed) ==
    [b \in {0, 1} |-> IF b = 0 THEN seed ELSE [i \in DOMAIN seed |-> 0]]

\* the seeding loop: each cell that comes out alive is set in both arrays
Seeded(seed) == [b \in {0, 1} |-> seed]

AcquisitionOrderBuffersFirst ==
    <<Handle("instance", 0), Handle("surface", 0), Handle("adapter", 0),
      Handle("device", 0), Handle("queue", 0), Handle("swapChain", 1),
      Handle("vertexBuffer", 0), Handle("gridBuffer", 0), Handle("storage", 0),
      Handle("storage", 1), Handle("drawShader", 0), Handle("computeShader", 0),
      Handle("bindGroupLayout", 0), Handle("pipelineLayout", 0),
      Handle("pipeline", 0), Handle("simulationPipeline", 0),
      Handle("bindGroup", 0), Handle("bindGroup", 1)>>

\* the handles InitState acquires, in the order of its calls
AcquisitionOrder ==
    <<Handle("instance", 0), Handle("surface", 0), Handle("adapter", 0),
      Handle("device", 0), Handle("queue", 0), Handle("swapChain", 1),
      Handle("vertexBuffer", 0), Handle("gridBuffer", 0), Handle("drawShader", 0),
      Handle("computeShader", 0), Handle("bindGroupLayout", 0),
      Handle("pipelineLayout", 0), Handle("pipeline", 0), Handle("storage", 0),
      Handle("storage", 1), Handle("bindGroup", 0), Handle("bindGroup", 1),
      Handle("simulationPipeline", 0)>>

\* the handles InitState stores in a field of State
StateFields ==
    {"instance", "surface", "adapter", "device", "queue", "vertexBuffer",
     "gridBuffer", "pipeline", "simulationPipeline"}

\* the ways through InitState: the call that fails, how the failure ends
\* (log.Fatalln, return s, err, or panic) and the handles acquired before it
InitPath(call, ends, got) == [call |-> call, ends |-> ends, got |-> got]

InitPaths ==
    {InitPath("RequestAdapter", "fatal", 2),
     InitPath("RequestDevice", "fatal", 3),
     InitPath("CreateSwapChain", "fatal", 5),
     InitPath("CreateBufferInit vertices", "fatal", 6),
     InitPath("WriteBuffer vertices", "fatal", 7),
     InitPath("CreateBufferInit grid", "fatal", 7),
     InitPath("WriteBuffer grid", "fatal", 8),
     InitPath("CreateShaderModule draw", "fatal", 8),
     InitPath("CreateShaderModule compute", "fatal", 9),
     InitPath("CreateBindGroupLayout", "return", 10),
     InitPath("CreatePipelineLayout", "return", 11),
     InitPath("CreateRenderPipeline", "return", 12),
     InitPath("CreateBufferInit cells 0", "panic", 13),
     InitPath("CreateBufferInit cells 1", "panic", 14),
     InitPath("CreateBindGroup A", "panic", 15),
     InitPath("CreateBindGroup B", "panic", 16),
     InitPath("CreateComputePipeline", "return", 17),
     InitPath("ok", "ok", 18)}

OkPath == InitPath("ok", "ok", 18)

ShaderReleasesAtCreation(got) ==
    (IF got >= 10
     THEN <<[kind |-> "computeShader", id |-> 0, by |-> "InitState", after |-> 10]>>
     ELSE <<>>)
      \o (IF got >= 9
          THEN <<[kind |-> "drawShader", id |-> 0, by |-> "InitState", after |-> 10]>>
          ELSE <<>>)

\* the shader modules are released by the deferred calls, the later one first,
\* when InitState leaves; after: the handles InitState had acquired by then
ShaderReleases(got) ==
    (IF got >= 10
     THEN <<[kind |-> "computeShader", id |-> 0, by |-> "InitState", after |-> got]>>
     ELSE <<>>)
      \o (IF got >= 9
          THEN <<[kind |-> "drawShader", id |-> 0, by |-> "InitState", after |-> got]>>
          ELSE <<>>)

\* the fields of State and the logs when InitState leaves by path p, the window
\* being w by h and the seeding giving seed
InitStateResult(g, seed, w, h, p) ==
    LET built ==
            [held |-> {f \in StateFields :
                          \E k \in 1 .. p.got : AcquisitionOrder[k].kind = f}
                        \cup (IF p.got >= 5 THEN {"config"} ELSE {}),
             config |-> IF p.got >= 5
                        THEN [Width |-> U32(w), Height |-> U32(h)]
                        ELSE [Width |-> U32(0), Height |-> U32(0)],
             swapChain |-> IF p.got >= 6 THEN 1 ELSE nil,
             created |-> IF p.got >= 6 THEN 1 ELSE 0,
             grid |-> IF p.got >= 8 \/ p.call = "CreateBufferInit grid" THEN g ELSE 0,
             cellStates |-> IF p.got >= 13 THEN Seeded(seed) ELSE <<>>,
             cellStateStorage |->
                 [b \in {c \in {0, 1} : p.got >= 14 + c} |-> Seeded(seed)[b]],
             gridBindGroups |-> IF p.got >= 17 THEN BindGroups ELSE <<>>,
             steps |-> 0,
             acquired |-> SubSeq(AcquisitionOrder, 1, p.got),
             released |-> IF p.ends = "fatal" THEN <<>> ELSE ShaderReleases(p.got),
             destroyCalls |-> 0]
    IN  IF p.ends = "return"
        THEN [Destroy(built) EXCEPT !.destroyCalls = 1]
        ELSE built

InitWith(g, seed, start) ==
    LET s == InitStateResult(g, seed, 1, 1, OkPath)
    IN  /\ pc = start
        /\ shouldClose = FALSE
        /\ polled = 0
        /\ event = NoEvent
        /\ grid = s.grid
        /\ cellStates = s.cellStates
        /\ cellStateStorage = s.cellStateStorage
        /\ gridBindGroups = s.gridBindGroups
        /\ steps = s.steps
        /\ config = s.config
        /\ held = s.held
        /\ swapChain = s.swapChain
        /\ created = s.created
        /\ acquired = s.acquired
        /\ released = s.released
        /\ destroyCalls = s.destroyCalls
        /\ initResult = "ok"
        /\ renderErr = NoError
        /\ heap = 1
        /\ submitted = 0
        /\ presented = 0
        /\ frame = NoFrame

\* main before InitState is called
Init ==
    /\ pc = "start"
    /\ shouldClose = FALSE
    /\ polled = 0
    /\ event = NoEvent
    /\ grid = 0
    /\ cellStates = <<>>
    /\ cellStateStorage = <<>>
    /\ gridBindGroups = <<>>
    /\ steps = 0
    /\ config = [Width |-> U32(0), Height |-> U32(0)]
    /\ held = {}
    /\ swapChain = nil
    /\ created = 0
    /\ acquired = <<>>
    /\ released = <<>>
    /\ destroyCalls = 0
    /\ initResult = "none"
    /\ renderErr = NoError
    /\ heap = 1
    /\ submitted = 0
    /\ presented = 0
    /\ frame = NoFrame

\* the sizes window.GetSize reports to setSwapChain, width and height
WindowSizes == {<<0, 0>>, <<1, 1>>}

AfterInitProceeds(ends) == "loop"

AfterInit(ends) ==
    CASE ends = "ok" -> "loop"
      [] ends = "return" -> "initerr"
      [] ends = "panic" -> "crashed"
      [] OTHER -> "fatal"

InitState ==
    /\ pc = "start"
    /\ \E p \in InitPaths, seed \in Grids(GRID_SIZE, MaxSeedAlive),
          size \in WindowSizes :
         LET s == InitStateResult(GRID_SIZE, seed, size[1], size[2], p)
         IN  /\ pc' = AfterInit(p.ends)
             /\ initResult' = p.call
             /\ grid' = s.grid
             /\ cellStates' = s.cellStates
             /\ cellStateStorage' = s.cellStateStorage
             /\ gridBindGroups' = s.gridBindGroups
             /\ steps' = s.steps
             /\ config' = s.config
             /\ held' = s.held
             /\ swapChain' = s.swapChain
             /\ created' = s.created
             /\ acquired' = s.acquired
             /\ released' = s.released
             /\ destroyCalls' = s.destroyCalls
    /\ UNCHANGED <<shouldClose, polled, event, renderErr, heap, submitted, presented, frame>>

\* main: if err != nil { panic(err) }, before defer s.Destroy() is reached
InitFailed ==
    /\ pc = "initerr"
    /\ pc' = "crashed"
    /\ UNCHANGED <<shouldClose, polled, event, grid, cellStates, cellStateStorage,
                   gridBindGroups, steps, config, held, swapChain, created, acquired,
                   released, destroyCalls, initResult, renderErr, heap, submitted,
                   presented, frame>>

\* ---- State.Resize ----
\* the body of the size test: the target is stored, the old swap chain released
\* and a new one created; fails: CreateSwapChain returns an error
NewSwapChainStale(s, width, height, fails) ==
    [s EXCEPT !.config = [Width |-> U32(width), Height |-> U32(height)],
              !.released = IF s.swapChain # nil
                           THEN Append(s.released,
                                       Released(Handle("swapChain", s.swapChain),
                                                "Resize"))
                           ELSE s.released,
              !.created = IF fails THEN s.created ELSE s.created + 1,
              !.acquired = IF fails THEN s.acquired
                           ELSE Append(s.acquired, Handle("swapChain", s.created + 1)),
              !.panicked = fails]

NewSwapChain(s, width, height, fails) ==
    [s EXCEPT !.config = [Width |-> U32(width), Height |-> U32(height)],
              !.released = IF s.swapChain # nil
                           THEN Append(s.released,
                                       Released(Handle("swapChain", s.swapChain),
                                                "Resize"))
                           ELSE s.released,
              !.swapChain = IF fails THEN nil ELSE s.created + 1,
              !.created = IF fails THEN s.created ELSE s.created + 1,
              !.acquired = IF fails THEN s.acquired
                           ELSE Append(s.acquired, Handle("swapChain", s.created + 1)),
              !.panicked = fails]

ResizeAcceptsZero(s, width, height, fails) ==
    IF width > 0 /\ height >= 0 THEN NewSwapChain(s, width, height, fails) ELSE s

ResizeSwapsBindGroups(s, width, height, fails) ==
    IF width > 0 /\ height > 0
    THEN [NewSwapChain(s, width, height, fails) EXCEPT
              !.gridBindGroups = <<s.gridBindGroups[2], s.gridBindGroups[1]>>]
    ELSE s

ResizeResetsSteps(s, width, height, fails) ==
    IF width > 0 /\ height > 0
    THEN [NewSwapChain(s, width, height, fails) EXCEPT !.steps = 0]
    ELSE s

Resize(s, width, height, fails) ==
    IF width > 0 /\ height > 0 THEN NewSwapChain(s, width, height, fails) ELSE s

\* ---- State.Render ----
ComputeBindGroupFixed(st) == gridBindGroups[1]

ComputeBindGroup(st) == gridBindGroups[(st % 2) + 1]

RenderBindGroupStale(st) == gridBindGroups[((st + 1) % 2) + 1]

RenderBindGroup(st) == gridBindGroups[(st % 2) + 1]

StepsAfterAlways(stage, st) == st + 1

StepsAfterNever(stage, st) == st

\* steps is incremented between the compute pass and the render pass
StepsAfter(stage, st) == IF stage \in {"acquire", "encoder"} THEN st ELSE st + 1

SubmitsAfterFailedFinish(stage) == stage \in {"finish", "ok"}

\* queue.Submit and swapChain.Present are reached only when no call failed
Submits(stage) == stage = "ok"

\* the handles a Render call acquires before it returns at the given stage
FrameHandles(stage) ==
    CASE stage = "acquire" -> <<>>
      [] stage = "encoder" -> <<"textureView">>
      [] stage = "finish" ->
             <<"textureView", "commandEncoder", "computePass", "renderPass">>
      [] OTHER ->
             <<"textureView", "commandEncoder", "computePass", "renderPass",
               "commandBuffer">>

DeferredReleasesInOrder(handles) == handles

\* the deferred Release calls run when Render returns, the last deferred first
DeferredReleases(handles) ==
    [k \in DOMAIN handles |-> handles[Len(handles) + 1 - k]]

RenderOutcomes ==
    {[stage |-> "acquire", msg |-> m] : m \in AcquireMessages}
      \cup {[stage |-> "encoder", msg |-> "Validation error"],
            [stage |-> "finish", msg |-> "Validation error"],
            [stage |-> "ok", msg |-> "nil"]}

RenderCall(o) ==
    LET cbg == ComputeBindGroup(steps)
        rbg == RenderBindGroup(StepsAfter(o.stage, steps))
    IN  /\ steps' = StepsAfter(o.stage, steps)
        /\ IF o.stage = "ok"
           THEN /\ renderErr' = NoError
                /\ heap' = heap
           ELSE /\ renderErr' = ErrorsNew(o.msg, heap)
                /\ heap' = heap + 1
        /\ IF Submits(o.stage)
           THEN /\ \E out \in Dispatch(grid, cellStateStorage[cbg.cellStateIn],
                                       cellStateStorage[cbg.cellStateOut]) :
                       cellStateStorage' =
                           [cellStateStorage EXCEPT ![cbg.cellStateOut] = out]
                /\ submitted' = submitted + 1
                /\ presented' = presented + 1
           ELSE UNCHANGED <<cellStateStorage, submitted, presented>>
        /\ frame' = IF o.stage \in {"acquire", "encoder"}
                    THEN [NoFrame EXCEPT
                              !.stage = o.stage,
                              !.target = swapChain,
                              !.acquired = FrameHandles(o.stage),
                              !.released = DeferredReleases(FrameHandles(o.stage))]
                    ELSE [stage |-> o.stage,
                          computeIn |-> cbg.cellStateIn,
                          computeOut |-> cbg.cellStateOut,
                          renderIn |-> rbg.cellStateIn,
                          read |-> cellStateStorage[cbg.cellStateIn],
                          shown |-> cellStateStorage'[rbg.cellStateIn],
                          target |-> swapChain,
                          stepsAtRender |-> StepsAfter(o.stage, steps),
                          acquired |-> FrameHandles(o.stage),
                          released |-> DeferredReleases(FrameHandles(o.stage))]
        /\ UNCHANGED <<shouldClose, polled, event, grid, cellStates, gridBindGroups,
                       config, held, swapChain, created, acquired, released,
                       destroyCalls, initResult>>

Render ==
    /\ pc = "render"
    /\ \E o \in RenderOutcomes : RenderCall(o)
    /\ pc' = "handle"

\* ---- main: the frame loop ----
LoopCheckIgnoresClose ==
    /\ pc = "loop"
    /\ steps < MaxSteps
    /\ pc' = "poll"
    /\ UNCHANGED <<shouldClose, polled, event, grid, cellStates, cellStateStorage,
                   gridBindGroups, steps, config, held, swapChain, created, acquired,
                   released, destroyCalls, initResult, renderErr, heap, submitted,
                   presented, frame>>

LoopCheck ==
    /\ pc = "loop"
    /\ shouldClose \/ steps < MaxSteps
    /\ pc' = IF shouldClose THEN "exit" ELSE "poll"
    /\ UNCHANGED <<shouldClose, polled, event, grid, cellStates, cellStateStorage,
                   gridBindGroups, steps, config, held, swapChain, created, acquired,
                   released, destroyCalls, initResult, renderErr, heap, submitted,
                   presented, frame>>

\* the sizes a resize notification reports
Sizes == {0, 2}

\* the size callback: s.Resize(width, height); fails: CreateSwapChain returns an
\* error and Resize panics
ResizeCalled(width, height, fails) ==
    LET s == Resize([config |-> config, swapChain |-> swapChain, created |-> created,
                     acquired |-> acquired, released |-> released, steps |-> steps,
                     grid |-> grid, gridBindGroups |-> gridBindGroups,
                     cellStates |-> cellStates, panicked |-> FALSE],
                    width, height, fails)
    IN  /\ config' = s.config
        /\ swapChain' = s.swapChain
        /\ created' = s.created
        /\ acquired' = s.acquired
        /\ released' = s.released
        /\ steps' = s.steps
        /\ grid' = s.grid
        /\ gridBindGroups' = s.gridBindGroups
        /\ cellStates' = s.cellStates
        /\ pc' = IF s.panicked THEN "panic" ELSE pc
        /\ polled' = polled + 1
        /\ event' = SizeEvent(width, height)
        /\ UNCHANGED <<shouldClose, cellStateStorage, held, destroyCalls, initResult,
                       renderErr, heap, submitted, presented, frame>>

SizeCallback ==
    /\ pc = "poll"
    /\ polled < MaxPollEvents
    /\ \E w \in Sizes, h \in Sizes, fails \in BOOLEAN :
         /\ fails => (w > 0 /\ h > 0)
         /\ ResizeCalled(w, h, fails)

Keys == {"R", "A"}

KeyActions == {"press", "repeat", "release"}

\* the key callback: the report is generated from s.instance on R pressed or held
KeyCallback ==
    /\ pc = "poll"
    /\ polled < MaxPollEvents
    /\ \E key \in Keys, action \in KeyActions :
         event' = IF key = "R" /\ action \in {"press", "repeat"}
                  THEN ReportEvent
                  ELSE KeyEvent
    /\ polled' = polled + 1
    /\ UNCHANGED <<pc, shouldClose, grid, cellStates, cellStateStorage,
                   gridBindGroups, steps, config, held, swapChain, created, acquired,
                   released, destroyCalls, initResult, renderErr, heap, submitted,
                   presented, frame>>

\* the user asks to close the window: glfw sets the flag while polling
CloseRequest ==
    /\ pc = "poll"
    /\ polled < MaxPollEvents
    /\ shouldClose' = TRUE
    /\ polled' = polled + 1
    /\ event' = CloseEvent
    /\ UNCHANGED <<pc, grid, cellStates, cellStateStorage, gridBindGroups, steps,
                   config, held, swapChain, created, acquired, released, destroyCalls,
                   initResult, renderErr, heap, submitted, presented, frame>>

\* glfw.PollEvents returns
PollEvents ==
    /\ pc = "poll"
    /\ pc' = "render"
    /\ polled' = 0
    /\ event' = NoEvent
    /\ UNCHANGED <<shouldClose, grid, cellStates, cellStateStorage, gridBindGroups,
                   steps, config, held, swapChain, created, acquired, released,
                   destroyCalls, initResult, renderErr, heap, submitted, presented,
                   frame>>

ClassifyAlwaysSkip(err, h) == [skip |-> TRUE, heap |-> h + 1]

\* the switch over the error Render returned: each case builds a new error value
Classify(err, h) ==
    IF ErrorsIs(err, ErrorsNew("Surface timed out", h))
    THEN [skip |-> TRUE, heap |-> h + 1]
    ELSE IF ErrorsIs(err, ErrorsNew("Surface is outdated", h + 1))
    THEN [skip |-> TRUE, heap |-> h + 2]
    ELSE IF ErrorsIs(err, ErrorsNew("Surface was lost", h + 2))
    THEN [skip |-> TRUE, heap |-> h + 3]
    ELSE [skip |-> FALSE, heap |-> h + 3]

HandleRenderError ==
    /\ pc = "handle"
    /\ IF renderErr = NoError
       THEN /\ pc' = "loop"
            /\ heap' = heap
       ELSE LET c == Classify(renderErr, heap)
            IN  /\ pc' = IF c.skip THEN "loop" ELSE "panic"
                /\ heap' = c.heap
    /\ UNCHANGED <<shouldClose, polled, event, grid, cellStates, cellStateStorage,
                   gridBindGroups, steps, config, held, swapChain, created, acquired,
                   released, destroyCalls, initResult, renderErr, submitted, presented,
                   frame>>

\* the Destroy call applied to the fields of State
DestroyCalled ==
    LET s == Destroy([held |-> held, swapChain |-> swapChain, released |-> released,
                      gridBindGroups |-> gridBindGroups])
    IN  /\ held' = s.held
        /\ swapChain' = s.swapChain
        /\ released' = s.released
        /\ gridBindGroups' = s.gridBindGroups
        /\ destroyCalls' = destroyCalls + 1
        /\ UNCHANGED <<shouldClose, polled, event, grid, cellStates, cellStateStorage, steps,
                       config, created, acquired, initResult, renderErr, heap,
                       submitted, presented, frame>>

\* main: defer s.Destroy(), run when main returns and when it panics
DeferredDestroy ==
    /\ pc \in {"exit", "panic"}
    /\ pc' = IF pc = "exit" THEN "exited" ELSE "crashed"
    /\ DestroyCalled

Next ==
    \/ InitState
    \/ InitFailed
    \/ LoopCheck
    \/ SizeCallback
    \/ KeyCallback
    \/ CloseRequest
    \/ PollEvents
    \/ Render
    \/ HandleRenderError
    \/ DeferredDestroy

Spec == Init /\ [][Next]_vars

\* ---- Destroy called again on a State it has already torn down ----
DestroyAgain ==
    /\ pc \in {"exited", "crashed"}
    /\ destroyCalls >= 1
    /\ destroyCalls < MaxDestroyCalls
    /\ pc' = pc
    /\ DestroyCalled

NextTeardown == Next \/ DestroyAgain

SpecTeardown == Init /\ [][NextTeardown]_vars

\* ---- the earlier program of main.go: one bind group, no simulation ----
\* the handles its InitState acquires, in the order of its calls
EarlyAcquisitionOrder ==
    <<Handle("instance", 0), Handle("surface", 0), Handle("adapter", 0),
      Handle("device", 0), Handle("queue", 0), Handle("swapChain", 1),
      Handle("vertexBuffer", 0), Handle("gridBuffer", 0),
      Handle("pipelineLayout", 0), Handle("drawShader", 0), Handle("pipeline", 0),
      Handle("bindGroupLayout", 0), Handle("gridBindGroup", 0)>>

\* the handles it stores in a field of State; s.instance keeps the pointer
\* after the deferred instance.Release() has run
EarlyStateFields ==
    {"instance", "surface", "device", "queue", "vertexBuffer", "gridBuffer",
     "pipeline", "gridBindGroup"}

\* every failing call of its InitState ends in return s, err
EarlyInitPaths ==
    {InitPath("RequestAdapter", "return", 2),
     InitPath("RequestDevice", "return", 3),
     InitPath("CreateSwapChain", "return", 5),
     InitPath("CreateBufferInit vertices", "return", 6),
     InitPath("CreateBufferInit grid", "return", 7),
     InitPath("CreatePipelineLayout", "return", 8),
     InitPath("CreateShaderModule draw", "return", 9),
     InitPath("CreateRenderPipeline", "return", 10),
     InitPath("CreateBindGroup", "return", 12),
     InitPath("ok", "ok", 13)}

\* the handles released by a deferred call, each with the number of handles
\* acquired when its defer statement is reached, the last deferred first
EarlyDeferred ==
    <<[kind |-> "bindGroupLayout", from |-> 12], [kind |-> "drawShader", from |-> 10],
      [kind |-> "pipelineLayout", from |-> 9], [kind |-> "adapter", from |-> 3],
      [kind |-> "instance", from |-> 1]>>

RECURSIVE EarlyDeferredReleases(_, _)
EarlyDeferredReleases(got, k) ==
    IF k > Len(EarlyDeferred) THEN <<>>
    ELSE (IF got >= EarlyDeferred[k].from
          THEN <<Released(Handle(EarlyDeferred[k].kind, 0), "InitState")>>
          ELSE <<>>)
           \o EarlyDeferredReleases(got, k + 1)

EarlyInitStateResult(g, w, h, p) ==
    [held |-> {f \in EarlyStateFields :
                  \E k \in 1 .. p.got : EarlyAcquisitionOrder[k].kind = f}
                \cup (IF p.got >= 5 THEN {"config"} ELSE {}),
     config |-> IF p.got >= 5
                THEN [Width |-> U32(w), Height |-> U32(h)]
                ELSE [Width |-> U32(0), Height |-> U32(0)],
     swapChain |-> IF p.got >= 6 THEN 1 ELSE nil,
     created |-> IF p.got >= 6 THEN 1 ELSE 0,
     grid |-> IF p.got >= 7 /\ p.call # "CreateBufferInit vertices" THEN g ELSE 0,
     acquired |-> SubSeq(EarlyAcquisitionOrder, 1, p.got),
     released |-> EarlyDeferredReleases(p.got, 1)]

EarlyInitState ==
    /\ pc = "start"
    /\ \E p \in EarlyInitPaths, size \in WindowSizes :
         LET s == EarlyInitStateResult(GRID_SIZE, size[1], size[2], p)
         IN  /\ pc' = AfterInit(p.ends)
             /\ initResult' = p.call
             /\ grid' = s.grid
             /\ config' = s.config
             /\ held' = s.held
             /\ swapChain' = s.swapChain
             /\ created' = s.created
             /\ acquired' = s.acquired
             /\ released' = s.released
    /\ UNCHANGED <<shouldClose, polled, event, cellStates, cellStateStorage,
                   gridBindGroups, steps, destroyCalls, renderErr, heap, submitted,
                   presented, frame>>

EarlyLoopCheck ==
    /\ pc = "loop"
    /\ shouldClose \/ presented < MaxSteps
    /\ pc' = IF shouldClose THEN "exit" ELSE "poll"
    /\ UNCHANGED <<shouldClose, polled, event, grid, cellStates, cellStateStorage,
                   gridBindGroups, steps, config, held, swapChain, created, acquired,
                   released, destroyCalls, initResult, renderErr, heap, submitted,
                   presented, frame>>

EarlyFrameHandles(stage) ==
    CASE stage = "acquire" -> <<>>
      [] stage = "encoder" -> <<"textureView">>
      [] stage = "finish" -> <<"textureView", "commandEncoder", "renderPass">>
      [] OTHER -> <<"textureView", "commandEncoder", "renderPass", "commandBuffer">>

EarlyRender ==
    /\ pc = "render"
    /\ pc' = "handle"
    /\ \E o \in RenderOutcomes :
         /\ IF o.stage = "ok"
            THEN /\ renderErr' = NoError
                 /\ heap' = heap
                 /\ submitted' = submitted + 1
                 /\ presented' = presented + 1
            ELSE /\ renderErr' = ErrorsNew(o.msg, heap)
                 /\ heap' = heap + 1
                 /\ UNCHANGED <<submitted, presented>>
         /\ frame' = [NoFrame EXCEPT
                          !.stage = o.stage,
                          !.target = swapChain,
                          !.acquired = EarlyFrameHandles(o.stage),
                          !.released = DeferredReleases(EarlyFrameHandles(o.stage))]
    /\ UNCHANGED <<shouldClose, polled, event, grid, cellStates, cellStateStorage,
                   gridBindGroups, steps, config, held, swapChain, created, acquired,
                   released, destroyCalls, initResult>>

EarlyDestroyOrder ==
    <<"swapChain", "config", "queue", "device", "surface", "vertexBuffer">>

RECURSIVE EarlyDestroyFields(_, _)
EarlyDestroyFields(s, k) ==
    IF k > Len(EarlyDestroyOrder) THEN s
    ELSE LET f == EarlyDestroyOrder[k]
             t == CASE f = "swapChain" ->
                         IF s.swapChain # nil
                         THEN [s EXCEPT !.released =
                                   Append(@, Released(Handle("swapChain", s.swapChain),
                                                      "Destroy")),
                                        !.swapChain = nil]
                         ELSE s
                    [] f = "config" -> [s EXCEPT !.held = @ \ {"config"}]
                    [] OTHER ->
                         IF f \in s.held
                         THEN [s EXCEPT !.released =
                                   Append(@, Released(Handle(f, 0), "Destroy")),
                                        !.held = @ \ {f}]
                         ELSE s
         IN  EarlyDestroyFields(t, k + 1)

EarlyDestroy(s) == EarlyDestroyFields(s, 1)

EarlyDeferredDestroy ==
    /\ pc \in {"exit", "panic"}
    /\ pc' = IF pc = "exit" THEN "exited" ELSE "crashed"
    /\ LET s == EarlyDestroy([held |-> held, swapChain |-> swapChain,
                              released |-> released])
       IN  /\ held' = s.held
           /\ swapChain' = s.swapChain
           /\ released' = s.released
    /\ destroyCalls' = destroyCalls + 1
    /\ UNCHANGED <<shouldClose, polled, event, grid, cellStates, cellStateStorage,
                   gridBindGroups, steps, config, created, acquired, initResult,
                   renderErr, heap, submitted, presented, frame>>

NextEarly ==
    \/ EarlyInitState
    \/ InitFailed
    \/ EarlyLoopCheck
    \/ SizeCallback
    \/ KeyCallback
    \/ CloseRequest
    \/ PollEvents
    \/ EarlyRender
    \/ HandleRenderError
    \/ EarlyDeferredDestroy

SpecEarly == Init /\ [][NextEarly]_vars

\* ---- the simulation alone, over grids of every small size ----
InitShader ==
    \E g \in 1 .. MaxShaderGrid :
        \E seed \in Grids(g, MaxShaderAlive) : InitWith(g, seed, "shader")

ShaderStep ==
    /\ pc = "shader"
    /\ steps < MaxShaderSteps
    /\ RenderCall([stage |-> "ok", msg |-> "nil"])
    /\ pc' = pc

NextShader == ShaderStep

SpecShader == InitShader /\ [][NextShader]_vars

\* ---- vocabulary of the properties ----
Encoded == {"finish", "ok"}

Alive(c) == Cardinality({i \in DOMAIN c : c[i] = 1})

AllDead(g) == [i \in Cells(g) |-> 0]

OnlyAlive(x, y, g) == [i \in Cells(g) |-> IF i = y * g + x THEN 1 ELSE 0]

\* the cell at offset (dx, dy) from (x, y) on the torus
TorusCell(x, y, dx, dy, g) == ((y + dy + g) % g) * g + ((x + dx + g) % g)

TorusNeighbours(x, y, g, c) ==
    c[TorusCell(x, y, -1, -1, g)] + c[TorusCell(x, y, 0, -1, g)] +
    c[TorusCell(x, y, 1, -1, g)] + c[TorusCell(x, y, -1, 0, g)] +
    c[TorusCell(x, y, 1, 0, g)] + c[TorusCell(x, y, -1, 1, g)] +
    c[TorusCell(x, y, 0, 1, g)] + c[TorusCell(x, y, 1, 1, g)]

Conway(n, current) == IF n = 2 THEN current ELSE IF n = 3 THEN 1 ELSE 0

Block == [i \in Cells(GRID_SIZE) |-> IF i \in {5, 6, 9, 10} THEN 1 ELSE 0]

\* C1: after a simulation update on the GRID_SIZE x GRID_SIZE grid, every cell
\* of the write grid holds the rule applied to the number of alive cells among
\* its 8 torus-wrapped neighbours in the read grid (2 keeps, 3 alive, else dead).
C1_UpdateIsConway ==
    (grid = GRID_SIZE /\ frame.stage = "ok") =>
        \A x \in 0 .. (grid - 1), y \in 0 .. (grid - 1) :
            cellStateStorage[frame.computeOut][y * grid + x] =
                Conway(TorusNeighbours(x, y, grid, frame.read),
                       frame.read[y * grid + x])

\* C2: on the 4x4 grid seeded with the 2x2 block (1,1), (2,1), (1,2), (2,2),
\* after the first step and after every later step exactly the block is alive.
C2_BlockStillLife ==
    (grid = GRID_SIZE /\ cellStates[0] = Block /\ frame.stage = "ok") =>
        cellStateStorage[frame.computeOut] = Block

\* C3: on the 4x4 grid, a step that reads a grid with exactly one alive cell
\* writes a grid in which that cell and every other cell is dead.
C3_LoneCellDies ==
    (grid = GRID_SIZE /\ frame.stage = "ok" /\ Alive(frame.read) = 1) =>
        cellStateStorage[frame.computeOut] = AllDead(grid)

C3_Witness ==
    /\ grid = GRID_SIZE
    /\ frame.stage = "ok"
    /\ Alive(frame.read) = 1
    /\ Alive(cellStateStorage[frame.computeOut]) = 0

\* C4: for the grid size N of the state, u32 coordinates wrap at both edges:
\* 0-1 goes to column (row) N-1 and (N-1)+1 to column (row) 0, and the cells
\* counted for cell (0,0) include (N-1,N-1), (N-1,0) and (0,N-1).
C4_WrapsAtBothEdges ==
    LET N == grid
        one == U32(1)
        below == U32Sub(U32(0), one)
        above == U32Add(U32(N - 1), one)
    IN  /\ \A k \in 0 .. (N - 1) :
              /\ cellIndex(<<below, U32(k)>>, N) = k * N + (N - 1)
              /\ cellIndex(<<U32(k), below>>, N) = (N - 1) * N + k
              /\ cellIndex(<<above, U32(k)>>, N) = k * N
              /\ cellIndex(<<U32(k), above>>, N) = k
        /\ activeNeighbors(<<U32(0), U32(0)>>, N, OnlyAlive(N - 1, N - 1, N)) >= 1
        /\ activeNeighbors(<<U32(0), U32(0)>>, N, OnlyAlive(N - 1, 0, N)) >= 1
        /\ activeNeighbors(<<U32(0), U32(0)>>, N, OnlyAlive(0, N - 1, N)) >= 1

\* C5: the simulation update encoded when the step counter is N reads snapshot
\* N mod 2 and writes snapshot (N+1) mod 2, two different buffers, and its
\* roles are those of the previous update swapped.
C5_RolesAlternate ==
    [][(pc = "render" /\ frame'.stage \in Encoded) =>
          /\ frame'.computeIn = steps % 2
          /\ frame'.computeOut = (steps + 1) % 2
          /\ frame'.computeIn # frame'.computeOut
          /\ (frame.stage \in Encoded =>
                /\ frame'.computeIn = frame.computeOut
                /\ frame'.computeOut = frame.computeIn)]_vars

C5_Witness ==
    /\ frame.stage = "ok"
    /\ steps = 2
    /\ frame.computeIn = 1
    /\ frame.computeOut = 0

\* C6: the render pass of a frame reads the snapshot the frame's simulation
\* update writes, so what a completed frame shows is the generation it computed.
C6_RenderReadsWriteTarget ==
    /\ frame.stage \in Encoded => frame.renderIn = frame.computeOut
    /\ frame.stage = "ok" => frame.shown = cellStateStorage[frame.computeOut]

C6_Witness ==
    /\ frame.stage = "ok"
    /\ frame.renderIn = frame.computeOut
    /\ frame.shown # frame.read

\* C7: a Render call changes no snapshot other than the one its simulation
\* update writes; the snapshot the update reads is the same before and after.
C7_ReadSideUntouched ==
    [][pc = "render" =>
          /\ \A b \in {0, 1} :
                 cellStateStorage'[b] # cellStateStorage[b] =>
                     (frame'.stage = "ok" /\ b = frame'.computeOut)
          /\ frame'.stage \in Encoded =>
                 cellStateStorage'[frame'.computeIn] = cellStateStorage[frame'.computeIn]]_vars

C7_Witness ==
    /\ frame.stage = "ok"
    /\ cellStateStorage[frame.computeIn] = frame.read
    /\ cellStateStorage[frame.computeOut] # frame.read

\* C8: the step counter equals the number of frames whose simulation update
\* was submitted to the queue.
C8_StepsCountSubmissions == steps = submitted

\* C9: when Render fails with "Surface timed out", "Surface is outdated" or
\* "Surface was lost", the loop goes on to its next iteration.
C9_TransientKeepsLooping ==
    [][(pc = "handle" /\ renderErr.msg \in TransientMessages) => pc' = "loop"]_vars

\* C10 as stated: a Render call that cannot acquire the output target for a
\* transient reason advances the step counter by exactly 1.
C10_TransientStillAdvances ==
    [][(pc = "render" /\ frame'.stage = "acquire"
          /\ renderErr'.msg \in TransientMessages) => steps' = steps + 1]_vars

\* C10 amended: a Render call that cannot acquire the output target for a
\* transient reason leaves the step counter unchanged.
C10_TransientLeavesSteps ==
    [][(pc = "render" /\ frame'.stage = "acquire"
          /\ renderErr'.msg \in TransientMessages) => steps' = steps]_vars

C10_Witness ==
    /\ pc = "handle"
    /\ frame.stage = "acquire"
    /\ renderErr.msg \in TransientMessages
    /\ steps = 1
    /\ submitted = 1

\* ---- vocabulary of the lifecycle properties ----
AcquiredSet == {acquired[k] : k \in DOMAIN acquired}

ReleaseCount(h) ==
    Cardinality({k \in DOMAIN released :
                    released[k].kind = h.kind /\ released[k].id = h.id})

AcquiredAt(r) == CHOOSE k \in DOMAIN acquired : acquired[k] = Handle(r.kind, r.id)

InitFailure == initResult \notin {"none", "ok"}

NonTransient(err) == err # NoError /\ err.msg \notin TransientMessages

SizeCallbackRan == event'.name = "size" /\ polled' = polled + 1

\* C11: when Render returns an error other than the three transient ones, main
\* panics, no further Render call or loop step follows, and Destroy runs exactly
\* once before the process ends.
C11_FatalRenderErrorTearsDownOnce ==
    [][/\ (pc = "handle" /\ NonTransient(renderErr)) => pc' = "panic"
       /\ pc = "panic" =>
              /\ pc' = "crashed"
              /\ destroyCalls = 0
              /\ destroyCalls' = 1
              /\ UNCHANGED <<steps, submitted, presented, frame>>
       /\ pc # "crashed"]_vars

C11_Witness ==
    /\ pc = "crashed"
    /\ renderErr.msg = "Out of memory"
    /\ frame.stage = "acquire"
    /\ destroyCalls = 1

\* C12: when InitState fails at any of its calls, the frame loop never runs:
\* no Render call is made and nothing is submitted or presented.
C12_FailedInitNeverRenders ==
    InitFailure =>
        /\ pc \in {"fatal", "initerr", "crashed"}
        /\ frame = NoFrame
        /\ steps = 0
        /\ submitted = 0
        /\ presented = 0

C12_Witness ==
    /\ pc = "crashed"
    /\ initResult = "CreateRenderPipeline"

\* C13: when InitState fails at some call, every handle acquired before that
\* call has been released exactly once by the time main goes on or the process
\* ends.
C13_PartialInitReleasedOnce ==
    InitFailure => \A h \in AcquiredSet : ReleaseCount(h) = 1

\* C14: a second Destroy call releases no handle that was already released.
C14_DestroyIdempotent ==
    destroyCalls >= 2 => \A h \in AcquiredSet : ReleaseCount(h) <= 1

\* C15: when main has returned, every handle the program acquired, the swap
\* chains created by Resize included, has been released exactly once.
C15_AllReleasedAtShutdown ==
    pc = "exited" => \A h \in AcquiredSet : ReleaseCount(h) = 1

\* C16: of any two handles Destroy releases, the one acquired later is released
\* earlier.
C16_ReverseAcquisitionOrder ==
    \A i, j \in DOMAIN released :
        (i < j /\ released[i].by = "Destroy" /\ released[j].by = "Destroy")
            => AcquiredAt(released[i]) > AcquiredAt(released[j])

\* C17: a Resize call with width <= 0 or height <= 0 leaves config and the swap
\* chain as they were and neither releases nor creates a swap chain.
C17_NonPositiveResizeIsNoOp ==
    [][(SizeCallbackRan /\ (event'.width <= 0 \/ event'.height <= 0))
          => UNCHANGED <<config, swapChain, created, acquired, released>>]_vars

C17_Witness ==
    /\ event = SizeEvent(2, 0)
    /\ config = [Width |-> U32(1), Height |-> U32(1)]
    /\ swapChain = 1
    /\ steps = 1

\* C18: a Resize call, whatever its arguments, changes neither snapshot of the
\* cells, nor the grid dimension, nor the step counter, nor the bind groups.
C18_ResizeLeavesSimulation ==
    [][SizeCallbackRan
          => UNCHANGED <<cellStateStorage, cellStates, grid, steps, gridBindGroups,
                         held, submitted, presented, frame>>]_vars

C18_Witness ==
    /\ event = SizeEvent(2, 2)
    /\ config = [Width |-> U32(2), Height |-> U32(2)]
    /\ swapChain = 2
    /\ steps = 1
    /\ frame.stage = "ok"

\* C19: after a successful InitState, config.Width and config.Height are at
\* least 1, whatever size the window reported and whatever resizes arrived.
C19_TargetAtLeastOne ==
    (initResult = "ok" /\ "config" \in held)
        => (config.Width # U32(0) /\ config.Height # U32(0))

\* C20 as stated: once the close request has been delivered, Render is not
\* called again.
C20_NoRenderAfterClose ==
    [][shouldClose => ~(pc = "render" /\ pc' = "handle")]_vars

\* C20 amended: once the close request has been delivered, the iteration in
\* progress runs to its end, the loop test then leaves the loop, and no
\* further iteration begins.
C20_NoIterationAfterClose ==
    [][/\ shouldClose => shouldClose'
       /\ (shouldClose /\ pc = "loop") => pc' = "exit"
       /\ (shouldClose /\ pc # "poll") => pc' # "poll"]_vars

C20_Witness ==
    /\ shouldClose
    /\ pc = "exited"
    /\ frame.stage = "ok"
    /\ steps = 1

\* C21: after InitState the two arrays of cell states, and the two storage
\* buffers created from them, have GRID_SIZE * GRID_SIZE cells each, hold the
\* same value cell by cell, and every cell is 0 or 1.
C21_SnapshotsStartEqual ==
    initResult = "ok" =>
        /\ \A b \in {0, 1} :
               /\ DOMAIN cellStates[b] = Cells(GRID_SIZE)
               /\ \A i \in Cells(GRID_SIZE) : cellStates[b][i] \in {0, 1}
        /\ \A i \in Cells(GRID_SIZE) : cellStates[0][i] = cellStates[1][i]
        /\ submitted = 0 =>
               \A b \in {0, 1} : cellStateStorage[b] = cellStates[b]

C21_Witness ==
    /\ initResult = "ok"
    /\ pc = "loop"
    /\ submitted = 0
    /\ \E i \in Cells(GRID_SIZE) : cellStates[0][i] = 1

\* the stage of the stated acquisition order a handle belongs to; 0: not listed
Stage(h) ==
    CASE h.kind = "instance" -> 1
      [] h.kind = "surface" -> 2
      [] h.kind \in {"adapter", "device", "queue"} -> 3
      [] h.kind = "swapChain" -> 4
      [] h.kind \in {"vertexBuffer", "gridBuffer", "storage"} -> 5
      [] h.kind \in {"drawShader", "computeShader"} -> 6
      [] h.kind \in {"pipeline", "simulationPipeline"} -> 7
      [] h.kind = "bindGroup" -> 8
      [] OTHER -> 0

\* the handles InitState acquired: all but the swap chains Resize created
ByInitState(h) == h.kind = "swapChain" => h.id = 1

\* C22 as stated: InitState acquires instance, surface, device and queue, swap
\* chain, buffers, shader modules, pipelines and bind groups in this order, so
\* both storage buffers come before any shader module and both pipelines
\* before any bind group.
C22_StagesInStatedOrder ==
    \A i, j \in DOMAIN acquired :
        (/\ i < j
         /\ ByInitState(acquired[i]) /\ ByInitState(acquired[j])
         /\ Stage(acquired[i]) # 0 /\ Stage(acquired[j]) # 0)
            => Stage(acquired[i]) <= Stage(acquired[j])

\* C22 amended: InitState acquires instance, surface, adapter, device, queue,
\* swap chain, vertex buffer, grid buffer, the two shader modules, bind-group
\* layout, pipeline layout, render pipeline, the two storage buffers, the two
\* bind groups and the compute pipeline, in this order; a failing call leaves
\* a prefix of it.
C22_AcquiredInCodeOrder ==
    LET order == <<Handle("instance", 0), Handle("surface", 0), Handle("adapter", 0),
                   Handle("device", 0), Handle("queue", 0), Handle("swapChain", 1),
                   Handle("vertexBuffer", 0), Handle("gridBuffer", 0),
                   Handle("drawShader", 0), Handle("computeShader", 0),
                   Handle("bindGroupLayout", 0), Handle("pipelineLayout", 0),
                   Handle("pipeline", 0), Handle("storage", 0), Handle("storage", 1),
                   Handle("bindGroup", 0), Handle("bindGroup", 1),
                   Handle("simulationPipeline", 0)>>
    IN  \A k \in DOMAIN acquired :
            ByInitState(acquired[k]) => (k <= Len(order) /\ acquired[k] = order[k])

C22_Witness ==
    /\ initResult = "ok"
    /\ pc = "loop"
    /\ AcquiredAt(Handle("computeShader", 0)) < AcquiredAt(Handle("storage", 0))
    /\ AcquiredAt(Handle("bindGroup", 1)) < AcquiredAt(Handle("simulationPipeline", 0))

\* C23 as stated: a successful Render call issues the render pass, submits and
\* presents with the step counter still at its value before the call, and
\* increments it by exactly 1 only afterwards.
C23_IncrementAfterPresent ==
    [][(pc = "render" /\ frame'.stage = "ok")
          => (frame'.stepsAtRender = steps /\ steps' = steps + 1)]_vars

\* C23 amended: a successful Render call selects the bind group of the
\* simulation update from the step counter, increments the counter by exactly
\* 1, selects the bind group of the render pass from the incremented counter,
\* and then submits and presents once.
C23_IncrementBeforeRenderPass ==
    [][(pc = "render" /\ frame'.stage = "ok")
          => /\ frame'.computeIn = gridBindGroups[(steps % 2) + 1].cellStateIn
             /\ frame'.computeOut = gridBindGroups[(steps % 2) + 1].cellStateOut
             /\ steps' = steps + 1
             /\ frame'.stepsAtRender = steps + 1
             /\ frame'.renderIn = gridBindGroups[((steps + 1) % 2) + 1].cellStateIn
             /\ submitted' = submitted + 1
             /\ presented' = presented + 1]_vars

C23_Witness ==
    /\ pc = "handle"
    /\ frame.stage = "ok"
    /\ frame.stepsAtRender = 2
    /\ steps = 2
    /\ presented = 2

\* InitState returned, with or without an error
ReturnedFrom == {p.call : p \in {q \in InitPaths : q.ends \in {"ok", "return"}}}

\* C24: when InitState has returned, with or without an error, each shader
\* module has been released exactly once, by InitState, after the creation of
\* every pipeline made from it, and is held in no field of State.
C24_ShadersReleasedAtReturn ==
    initResult \in ReturnedFrom =>
        \A k \in {"drawShader", "computeShader"} :
            /\ k \notin held
            /\ ReleaseCount(Handle(k, 0)) = 1
            /\ \A n \in DOMAIN released :
                   released[n].kind = k =>
                       /\ released[n].by = "InitState"
                       /\ \A q \in {"pipeline", "simulationPipeline"} :
                              Handle(q, 0) \in AcquiredSet
                                  => released[n].after >= AcquiredAt(Handle(q, 0))

C24_Witness ==
    /\ initResult = "CreateComputePipeline"
    /\ pc = "crashed"
    /\ Handle("pipeline", 0) \in AcquiredSet
    /\ ReleaseCount(Handle("computeShader", 0)) = 1

\* C25: after InitState the first bind group binds storage buffer 0 for
\* reading and 1 for writing, the second binds 1 for reading and 0 for
\* writing, and no Render or Resize call changes either.
C25_BindGroupsFixed ==
    initResult = "ok" =>
        gridBindGroups = <<[cellStateIn |-> 0, cellStateOut |-> 1],
                           [cellStateIn |-> 1, cellStateOut |-> 0]>>

C25_Witness ==
    /\ pc = "handle"
    /\ frame.stage = "ok"
    /\ steps = 2
    /\ created = 2
    /\ gridBindGroups[1].cellStateIn = 0

\* C26: in a simulation step every cell of the written buffer is written, and
\* all invocations that write a cell write the same value to it.
C26_WritesAgree ==
    []((initResult = "ok" /\ pc = "render") =>
        LET in == cellStateStorage[ComputeBindGroup(steps).cellStateIn]
            writes == {main(c, grid, in) : c \in Invocations(grid)}
        IN  /\ {w.i : w \in writes} = Cells(grid)
            /\ \A w, u \in writes : w.i = u.i => w.v = u.v)

C26_Witness ==
    /\ pc = "render"
    /\ steps = 0
    /\ \E i \in Cells(grid) : cellStateStorage[0][i] = 1

\* C27: a Render call that returns an error has submitted nothing, presented
\* nothing and changed neither storage buffer.
C27_ErrorSubmitsNothing ==
    [][(pc = "render" /\ renderErr' # NoError)
          => UNCHANGED <<submitted, presented, cellStateStorage>>]_vars

C27_Witness ==
    /\ pc = "handle"
    /\ frame.stage = "finish"
    /\ renderErr # NoError
    /\ steps = 2
    /\ submitted = 1
    /\ presented = 1

\* C28: every handle a Render call acquires is released exactly once before
\* the call returns, and a handle acquired later is released earlier.
C28_FrameHandlesReleased ==
    LET Pos(h) == {k \in DOMAIN frame.released : frame.released[k] = h}
    IN  /\ Len(frame.released) = Len(frame.acquired)
        /\ \A i \in DOMAIN frame.acquired : Cardinality(Pos(frame.acquired[i])) = 1
        /\ \A i, j \in DOMAIN frame.acquired :
               i < j => \A a \in Pos(frame.acquired[i]), b \in Pos(frame.acquired[j]) :
                            b < a

C28_Witness ==
    /\ frame.stage = "finish"
    /\ Len(frame.acquired) = 4
    /\ frame.released[1] = "renderPass"
    /\ frame.released[4] = "textureView"

\* the swap chains that have been created and not released
LiveSwapChains ==
    {h \in AcquiredSet : h.kind = "swapChain" /\ ReleaseCount(h) = 0}

\* C29: a Render call takes its output target from the swap chain created
\* last, which has not been released, and at no time are there two swap
\* chains that have not been released.
C29_RenderUsesLatestSwapChain ==
    [][/\ (pc = "render" /\ pc' = "handle")
            => /\ frame'.target # nil
               /\ frame'.target = created
               /\ Handle("swapChain", frame'.target) \in LiveSwapChains
       /\ Cardinality(LiveSwapChains') <= 1]_vars

C29_Witness ==
    /\ pc = "handle"
    /\ frame.stage = "ok"
    /\ frame.target = 2
    /\ ReleaseCount(Handle("swapChain", 1)) = 1

\* C30: in the earlier program, whenever the key callback generates the report
\* from s.instance, the instance has not been released.
C30_ReportOnLiveInstance ==
    event = ReportEvent => ReleaseCount(Handle("instance", 0)) = 0

====
